---- MODULE Spec2Model ----
(***************************************************************************)
(* A model of the parallel convolution engine of image_pThreads.c:         *)
(* getPixelValue (the 3x3 evaluator), convolute_thread_worker (one worker  *)
(* per row band) and convolute (the scheduler: core query, allocation,     *)
(* serial fallback, partition, launch, join, free).                        *)
(*                                                                         *)
(* One call of convolute is modelled.  The scheduler's position is pc;     *)
(* every worker thread takes one step per pixel/channel cell, so that all  *)
(* interleavings of the workers with each other and with the scheduler's   *)
(* launch and join loops are explored.                                     *)
(***************************************************************************)
EXTENDS Integers, Sequences, FiniteSets, TLC

(***************************************************************************)
(* Bounds of the model.                                                    *)
(***************************************************************************)
MaxCores == 3
MaxHeight == 3
MaxWidth == 2
MaxBpp == 2
EvalMaxSide == 4

\* The largest channel count of an image (bpp in [1,4]).
MaxChannels == 4

\* A byte of the destination buffer that malloc returned and nobody wrote.
Unwritten == -1

\* pthread_create's error return (EAGAIN); any non-zero value takes the
\* same branch at line 147.
EAGAIN == 11

VARIABLES
    srcImage,        \* *srcImage : [width, height, bpp, data]
    destImage,       \* *destImage: [width, height, bpp, data]
    algorithm,       \* the kernel passed to convolute
    pc,              \* the scheduler's position in convolute
    num_cores,       \* line 98
    num_threads,     \* line 99
    heap,            \* state of the two malloc'ed arrays: threads, thread_data
    thread_data,     \* contents of the ThreadData array
    rows_per_thread, \* line 122
    remaining_rows,  \* line 123
    current_row,     \* line 124
    i,               \* loop index of the launch loop and of the join loop
    rc,              \* line 146
    serial,          \* (row, pix, bit) of the fallback loop, lines 109-111
    wstate,          \* per thread: "none", "running", "done"
    worker,          \* per thread: (row, pix, bit) of the worker loop
    writers,         \* history: per destination index, the threads that wrote it
    reads,           \* history: per thread, the source rows it read
    writes           \* history: per thread, the destination rows it wrote

vars == <<srcImage, destImage, algorithm, pc, num_cores, num_threads, heap,
          thread_data, rows_per_thread, remaining_rows, current_row, i, rc,
          serial, wstate, worker, writers, reads, writes>>

\* Thread slots; the scheduler itself writes as MainThread in the fallback.
Slots == 0..(MaxCores - 1)
MainThread == -1

(***************************************************************************)
(* The kernel table.  A Matrix of doubles is kept as integer numerators    *)
(* over one denominator.  Integer weights and multiples of 1/16 are exact  *)
(* in binary floating point, and so is every sum of their products with    *)
(* bytes: on them the double arithmetic of getPixelValue is exact rational *)
(* arithmetic.  The weight 1/9.0 of BLUR is not exact: its products and    *)
(* sums are rounded, and are computed below as the doubles they are.       *)
(***************************************************************************)
EDGE == 0
SHARPEN == 1
BLUR == 2
GAUSE_BLUR == 3
EMBOSS == 4
IDENTITY == 5

algorithms ==
    [k \in {EDGE, SHARPEN, BLUR, GAUSE_BLUR, EMBOSS, IDENTITY} |->
        CASE k = EDGE       -> [w |-> << <<0,-1,0>>, <<-1,4,-1>>, <<0,-1,0>> >>, den |-> 1]
          [] k = SHARPEN    -> [w |-> << <<0,-1,0>>, <<-1,5,-1>>, <<0,-1,0>> >>, den |-> 1]
          [] k = BLUR       -> [w |-> << <<1,1,1>>, <<1,1,1>>, <<1,1,1>> >>, den |-> 9]
          [] k = GAUSE_BLUR -> [w |-> << <<1,2,1>>, <<2,4,2>>, <<1,2,1>> >>, den |-> 16]
          [] k = EMBOSS     -> [w |-> << <<-2,-1,0>>, <<-1,1,1>>, <<0,1,2>> >>, den |-> 1]
          [] k = IDENTITY   -> [w |-> << <<0,0,0>>, <<0,1,0>>, <<0,0,0>> >>, den |-> 1]]

(***************************************************************************)
(* Index (image.h): row-major, channels interleaved per pixel.             *)
(***************************************************************************)
Index(x, y, width, bit, bpp) == y * width * bpp + bpp * x + bit

\* Inverse of Index on in-range cells: the row, pixel and channel of a byte.
RowOf(k, img) == k \div (img.width * img.bpp)
PixOf(k, img) == (k % (img.width * img.bpp)) \div img.bpp
BitOf(k, img) == k % img.bpp

(***************************************************************************)
(* getPixelValue, lines 35-60.                                             *)
(***************************************************************************)
\* A variant of ClampLow without the test of lines 40-41.
ClampLowNone(v) == v

\* A variant of ClampHigh that tests > where lines 42-43 test >=.
ClampHighOff(v, n) == IF v > n THEN n - 1 ELSE v

\* lines 40-41: if (mx<0) mx=0;
ClampLow(v) == IF v < 0 THEN 0 ELSE v

\* lines 42-43: if (px>=srcImage->width) px=srcImage->width-1;
ClampHigh(v, n) == IF v >= n THEN n - 1 ELSE v

\* A variant of NeighbourRows that reaches two rows up.
NeighbourRowsWide(img, y) == << ClampLow(y - 2), y, ClampHigh(y + 1, img.height) >>

\* A variant of NeighbourCols that reads the right neighbour for the centre.
NeighbourColsOffCentre(img, x) ==
    << ClampLow(x - 1), ClampHigh(x + 1, img.width), ClampHigh(x + 1, img.width) >>

\* The three columns and the three rows the evaluator reads, in kernel order.
NeighbourCols(img, x) == << ClampLow(x - 1), x, ClampHigh(x + 1, img.width) >>
NeighbourRows(img, y) == << ClampLow(y - 1), y, ClampHigh(y + 1, img.height) >>

\* srcImage->data[k].  A read outside the buffer is undefined: it yields
\* some byte.
Fetch(img, k) == IF k \in DOMAIN img.data THEN img.data[k] ELSE CHOOSE b \in 0..255 : TRUE

\* lines 44-53 for a kernel whose weights are exact doubles: the weighted
\* sum, as a numerator over alg.den.
WeightedSum(img, x, y, bit, alg) ==
    LET cs == NeighbourCols(img, x)
        rs == NeighbourRows(img, y)
        term(j, c) == alg.w[j][c] * Fetch(img, Index(cs[c], rs[j], img.width, bit, img.bpp))
    IN  term(1,1) + term(1,2) + term(1,3)
      + term(2,1) + term(2,2) + term(2,3)
      + term(3,1) + term(3,2) + term(3,3)

(***************************************************************************)
(* IEEE 754 binary64 arithmetic on the non-negative doubles the BLUR       *)
(* kernel produces.  Each of them is a multiple of 2^-56 below 2^10 and is *)
(* kept as that multiple, in three limbs of 22 bits: a * 2^44 + b * 2^22   *)
(* + c.  A double has 53 significant bits, so a result of more than 53     *)
(* bits is rounded to the nearest double, ties to even.                    *)
(***************************************************************************)
LimbBase == 2^22

\* 1/9.0 as a double: 8006399337547548 * 2^-56.
Ninth == [a |-> 455, b |-> 466033, c |-> 3262236]

\* Carry propagation between the limbs.
Normalise(a, b, c) ==
    LET b1 == b + c \div LimbBase
    IN  [a |-> a + b1 \div LimbBase, b |-> b1 % LimbBase, c |-> c % LimbBase]

\* The number of significant bits of n < 2^30.
BitLength(n) == CHOOSE k \in 0..30 : n < 2^k /\ (k = 0 \/ 2^(k - 1) <= n)

\* The weight of the lowest bit a double of magnitude n keeps, in units of
\* 2^-56.  The top limb holds the bits from 2^44 up: while it has at most
\* 9 of them all 53 bits fit, beyond that the e lowest bits are dropped.
Ulp(n) == IF n.a < 2^9 THEN 1 ELSE 2^(BitLength(n.a) - 9)

\* n rounded to the nearest multiple of p, ties to the even multiple.
RoundTo(n, p) ==
    LET r == n.c % p
        up == r > p \div 2 \/ (r = p \div 2 /\ (n.c \div p) % 2 = 1)
    IN  Normalise(n.a, n.b, IF up THEN n.c - r + p ELSE n.c - r)

\* Round-to-nearest-even to 53 significant bits.  The operand and its ulp
\* are bound as n and p, so that each is computed once.
RoundBinary64(m) ==
    CHOOSE z \in UNION {{RoundTo(n, p) : p \in {Ulp(n)}} : n \in {m}} : TRUE

\* x * v for a double x and a byte v converted to double.
TimesByte(x, v) == RoundBinary64(Normalise(x.a * v, x.b * v, x.c * v))

\* x + y for two doubles.  The operands are bound as a pair p, so that each
\* of them is computed once however deep the sum is nested.
Plus(x, y) ==
    CHOOSE z \in {RoundBinary64(Normalise(p[1].a + p[2].a, p[1].b + p[2].b, p[1].c + p[2].c)) :
                     p \in {<<x, y>>}} : TRUE

\* lines 44-53 for BLUR, every weight 1/9.0: the products are added from
\* left to right.
WeightedSumBinary64(img, x, y, bit) ==
    LET cs == NeighbourCols(img, x)
        rs == NeighbourRows(img, y)
        term(j, c) == TimesByte(Ninth, Fetch(img, Index(cs[c], rs[j], img.width, bit, img.bpp)))
    IN  Plus(Plus(Plus(Plus(Plus(Plus(Plus(Plus(
            term(1,1), term(1,2)), term(1,3)),
            term(2,1)), term(2,2)), term(2,3)),
            term(3,1)), term(3,2)), term(3,3))

\* lines 55-59 on such a double: above 255 it becomes 255 (it is never
\* negative), then the cast to uint8_t drops the fraction, the 56 low bits.
ClampAndCast(s) ==
    CHOOSE z \in {IF d.a > 255 * 2^12 \/ (d.a = 255 * 2^12 /\ (d.b > 0 \/ d.c > 0)) THEN 255
                  ELSE d.a \div 2^12 : d \in {s}} : TRUE

\* The kernels whose weights, products and sums are exact in binary64.
ExactKernel(alg) == alg.den \in {1, 2, 4, 8, 16}

\* lines 55-59: clamp to [0,255], then the cast to uint8_t truncates.
getPixelValue(img, x, y, bit, alg) ==
    IF ExactKernel(alg)
    THEN LET s == WeightedSum(img, x, y, bit, alg)
         IN  IF s > 255 * alg.den THEN 255
             ELSE IF s < 0 THEN 0
             ELSE s \div alg.den
    ELSE ClampAndCast(WeightedSumBinary64(img, x, y, bit))

(***************************************************************************)
(* Inputs of one call.                                                     *)
(***************************************************************************)
\* The bytes of the decoded source image.
SampleByte(k) == (k * 61 + 40) % 256

\* stbi_load, line 201: the decoded source image.
LoadedImage(w, h, b) ==
    [width |-> w, height |-> h, bpp |-> b,
     data |-> [k \in 0..(w * h * b - 1) |-> SampleByte(k)]]

\* lines 206-209: an image of the given dimensions over a fresh buffer.
FreshImage(w, h, b) ==
    [width |-> w, height |-> h, bpp |-> b,
     data |-> [k \in 0..(w * h * b - 1) |-> Unwritten]]

\* main, lines 201-209: the destination has the source's dimensions and a
\* freshly allocated buffer of width*height*bpp bytes.
CallerInputs ==
    {<<LoadedImage(w, h, b), FreshImage(w, h, b)>> :
        w \in 1..MaxWidth, h \in 1..MaxHeight, b \in 1..MaxBpp}

\* convolute takes any two images: here also an empty source (height 0)
\* and a destination one row taller than the source.
AnyInputs ==
    UNION {{<<LoadedImage(w, h, b), FreshImage(w, dh, b)>> :
               dh \in {h, h + 1}} :
           w \in 1..MaxWidth, h \in 0..MaxHeight, b \in 1..MaxBpp}

\* The state at the entry of convolute, line 95.
\* The kernel field of a descriptor that was never filled.
NoKernel == [w |-> <<>>, den |-> 0]

InitFrom(inputs) ==
    /\ \E p \in inputs :
          /\ srcImage = p[1]
          /\ destImage = p[2]
    /\ algorithm \in {algorithms[k] : k \in DOMAIN algorithms}
    /\ pc = "start"
    /\ num_cores = 0
    /\ num_threads = 0
    /\ heap = [threads |-> "UNSET", thread_data |-> "UNSET"]
    /\ thread_data = [t \in Slots |-> [srcImage |-> "NULL", destImage |-> "NULL",
                                        algorithm |-> NoKernel,
                                        start_row |-> 0, end_row |-> 0]]
    /\ rows_per_thread = 0
    /\ remaining_rows = 0
    /\ current_row = 0
    /\ i = 0
    /\ rc = 0
    /\ serial = [row |-> 0, pix |-> 0, bit |-> 0]
    /\ wstate = [t \in Slots |-> "none"]
    /\ worker = [t \in Slots |-> [row |-> 0, pix |-> 0, bit |-> 0]]
    /\ writers = [k \in DOMAIN destImage.data |-> {}]
    /\ reads = [t \in Slots \cup {MainThread} |-> {}]
    /\ writes = [t \in Slots \cup {MainThread} |-> {}]

Init == InitFrom(CallerInputs)

InitUnchecked == InitFrom(AnyInputs)

(***************************************************************************)
(* convolute, lines 95-161: the scheduler.                                 *)
(***************************************************************************)
\* What sysconf(_SC_NPROCESSORS_ONLN) returns: the number of processors
\* online, at least 1 for a running process, or -1 when the query is not
\* supported.
HwValues == {-1} \cup (1..MaxCores)

\* lines 98-99: num_threads is the query's result, unchanged.
ThreadCount(cores) == cores

QueryCores ==
    /\ pc = "start"
    /\ \E n \in HwValues :
          /\ num_cores' = n
          /\ num_threads' = ThreadCount(n)
    /\ pc' = "alloc"
    /\ UNCHANGED <<srcImage, destImage, algorithm, heap, thread_data,
                   rows_per_thread, remaining_rows, current_row, i, rc, serial,
                   wstate, worker, writers, reads, writes>>

\* lines 103-104: malloc(num_threads * sizeof(...)).  A negative count
\* converts to a size near SIZE_MAX, which no allocator grants; any other
\* request may succeed or fail.
MallocResults(n) == IF n < 0 THEN {"NULL"} ELSE {"NULL", "LIVE"}

Allocate ==
    /\ pc = "alloc"
    /\ \E a \in MallocResults(num_threads), b \in MallocResults(num_threads) :
          heap' = [threads |-> a, thread_data |-> b]
    /\ pc' = "check"
    /\ UNCHANGED <<srcImage, destImage, algorithm, num_cores, num_threads,
                   thread_data, rows_per_thread, remaining_rows, current_row,
                   i, rc, serial, wstate, worker, writers, reads, writes>>

\* A variant of AllocationFailed that tests && where the code tests ||.
AllocationFailedBoth == heap.threads = "NULL" /\ heap.thread_data = "NULL"

\* line 106
AllocationFailed == heap.threads = "NULL" \/ heap.thread_data = "NULL"

\* free(p): a no-op on NULL.
Free(p) == IF p = "LIVE" THEN "FREED" ELSE p

\* A variant of Advance whose outer loop forgets row++.
AdvanceNoRow(pos, img) ==
    IF pos.bit + 1 < img.bpp THEN [pos EXCEPT !.bit = pos.bit + 1]
    ELSE IF pos.pix + 1 < img.width THEN [pos EXCEPT !.pix = pos.pix + 1, !.bit = 0]
    ELSE [row |-> pos.row, pix |-> 0, bit |-> 0]

\* The next position of a for(row) for(pix) for(bit) nest over img's
\* columns and channels, lines 80-82 and 109-111.
Advance(pos, img) ==
    IF pos.bit + 1 < img.bpp THEN [pos EXCEPT !.bit = pos.bit + 1]
    ELSE IF pos.pix + 1 < img.width THEN [pos EXCEPT !.pix = pos.pix + 1, !.bit = 0]
    ELSE [row |-> pos.row + 1, pix |-> 0, bit |-> 0]

\* lines 106-108: enter the serial fallback.
EnterFallback ==
    /\ pc = "check"
    /\ AllocationFailed
    /\ serial' = [row |-> 0, pix |-> 0, bit |-> 0]
    /\ pc' = "serial"
    /\ UNCHANGED <<srcImage, destImage, algorithm, num_cores, num_threads, heap,
                   thread_data, rows_per_thread, remaining_rows, current_row,
                   i, rc, wstate, worker, writers, reads, writes>>

\* lines 109-115: one cell of the fallback pass.
SerialStep ==
    /\ pc = "serial"
    /\ serial.row < srcImage.height
    /\ LET k == Index(serial.pix, serial.row, srcImage.width, serial.bit, srcImage.bpp)
           v == getPixelValue(srcImage, serial.pix, serial.row, serial.bit, algorithm)
           rs == NeighbourRows(srcImage, serial.row)
       IN  /\ destImage' = [destImage EXCEPT !.data[k] = v]
           /\ writers' = [writers EXCEPT ![k] = @ \cup {MainThread}]
           /\ reads' = [reads EXCEPT ![MainThread] = @ \cup {rs[1], rs[2], rs[3]}]
           /\ writes' = [writes EXCEPT ![MainThread] = @ \cup {serial.row}]
    /\ serial' = Advance(serial, srcImage)
    /\ UNCHANGED <<srcImage, algorithm, pc, num_cores, num_threads, heap,
                   thread_data, rows_per_thread, remaining_rows, current_row,
                   i, rc, wstate, worker>>

\* lines 116-118: free both arrays and return.
SerialReturn ==
    /\ pc = "serial"
    /\ serial.row >= srcImage.height
    /\ heap' = [threads |-> Free(heap.threads), thread_data |-> Free(heap.thread_data)]
    /\ pc' = "returned"
    /\ UNCHANGED <<srcImage, destImage, algorithm, num_cores, num_threads,
                   thread_data, rows_per_thread, remaining_rows, current_row,
                   i, rc, serial, wstate, worker, writers, reads, writes>>

\* lines 121-124 and the launch loop's int i = 0.  C's / truncates toward
\* zero and % takes the dividend's sign; height >= 0 and num_threads >= 1
\* here, where they agree with \div and %.
Partition ==
    /\ pc = "check"
    /\ ~AllocationFailed
    /\ rows_per_thread' = srcImage.height \div num_threads
    /\ remaining_rows' = srcImage.height % num_threads
    /\ current_row' = 0
    /\ i' = 0
    /\ pc' = "launch"
    /\ UNCHANGED <<srcImage, destImage, algorithm, num_cores, num_threads, heap,
                   thread_data, rc, serial, wstate, worker, writers, reads, writes>>

\* A variant of RemainingAfter that forgets the decrement of line 139.
RemainingKept(rem) == rem

\* A variant of RowsForThisThread that hands out no remainder row.
RowsNoExtra(rem) == rows_per_thread

\* lines 136-140: the rows of the band being filled, and what is left of
\* the remainder afterwards.
RowsForThisThread(rem) == IF rem > 0 THEN rows_per_thread + 1 ELSE rows_per_thread
RemainingAfter(rem) == IF rem > 0 THEN rem - 1 ELSE rem

\* A variant of Descriptor whose source pointer is the destination.
DescriptorReadsDestination ==
    [srcImage |-> "destImage", destImage |-> "destImage", algorithm |-> algorithm,
     start_row |-> current_row,
     end_row |-> current_row + RowsForThisThread(remaining_rows)]

\* A variant of DescriptorSlot that fills the element of the previous
\* iteration again.
DescriptorSlotPrev == IF i > 0 THEN i - 1 ELSE i

\* lines 129-142: the element of thread_data the iteration fills.
DescriptorSlot == i

\* lines 129-142: the descriptor of thread i.
Descriptor ==
    [srcImage |-> "srcImage", destImage |-> "destImage", algorithm |-> algorithm,
     start_row |-> current_row,
     end_row |-> current_row + RowsForThisThread(remaining_rows)]

\* A variant of LoopStart that starts every worker at row 0.
LoopStartZero(d) == 0

\* line 80: the worker's loop starts at its descriptor's start_row.
LoopStart(d) == d.start_row

\* A variant of SpawnFailure that returns to the caller instead of exiting.
SpawnFailureReturns == pc' = "returned"

\* lines 147-150: pthread_create failed: diagnostic, then exit(-1).  The
\* process ends at once; its threads end with it.
SpawnFailure == pc' = "fatal"

\* lines 127-151: one iteration of the launch loop.
Launch ==
    /\ pc = "launch"
    /\ i < num_threads
    /\ thread_data' = [thread_data EXCEPT ![DescriptorSlot] = Descriptor]
    /\ remaining_rows' = RemainingAfter(remaining_rows)
    /\ current_row' = Descriptor.end_row
    /\ \E r \in {0, EAGAIN} :
          /\ rc' = r
          /\ IF r = 0
             THEN /\ wstate' = [wstate EXCEPT ![i] = "running"]
                  /\ worker' = [worker EXCEPT ![i] =
                                   [row |-> LoopStart(Descriptor), pix |-> 0, bit |-> 0]]
                  /\ i' = i + 1
                  /\ pc' = pc
             ELSE /\ SpawnFailure
                  /\ UNCHANGED <<wstate, worker, i>>
    /\ UNCHANGED <<srcImage, destImage, algorithm, num_cores, num_threads, heap,
                   rows_per_thread, serial, writers, reads, writes>>

\* line 127 exit, line 154 entry.
LaunchDone ==
    /\ pc = "launch"
    /\ i >= num_threads
    /\ i' = 0
    /\ pc' = "join"
    /\ UNCHANGED <<srcImage, destImage, algorithm, num_cores, num_threads, heap,
                   thread_data, rows_per_thread, remaining_rows, current_row, rc,
                   serial, wstate, worker, writers, reads, writes>>

\* A variant of JoinReady that does not wait for the thread.
JoinNoWait(t) == TRUE

\* A variant of JoinReady that joins threads[0] in every iteration.
JoinFirstOnly(t) == wstate[0] = "done"

\* pthread_join(threads[t]) returns once thread t has terminated.
JoinReady(t) == wstate[t] = "done"

\* lines 154-156: one iteration of the join loop.
Join ==
    /\ pc = "join"
    /\ i < num_threads
    /\ JoinReady(i)
    /\ i' = i + 1
    /\ UNCHANGED <<srcImage, destImage, algorithm, pc, num_cores, num_threads,
                   heap, thread_data, rows_per_thread, remaining_rows,
                   current_row, rc, serial, wstate, worker, writers, reads, writes>>

\* lines 158-161: free both arrays and return.
FreeAndReturn ==
    /\ pc = "join"
    /\ i >= num_threads
    /\ heap' = [threads |-> Free(heap.threads), thread_data |-> Free(heap.thread_data)]
    /\ pc' = "returned"
    /\ UNCHANGED <<srcImage, destImage, algorithm, num_cores, num_threads,
                   thread_data, rows_per_thread, remaining_rows, current_row,
                   i, rc, serial, wstate, worker, writers, reads, writes>>

(***************************************************************************)
(* convolute_thread_worker, lines 75-91.                                   *)
(***************************************************************************)
\* The image a descriptor's pointer refers to.
Deref(p) == IF p = "srcImage" THEN srcImage ELSE destImage

\* A variant of WorkerValue that evaluates channel 0 for every channel.
WorkerValueChannel0(d, pix, row, bit) == getPixelValue(Deref(d.srcImage), pix, row, 0, d.algorithm)

\* line 84
WorkerValue(d, pix, row, bit) == getPixelValue(Deref(d.srcImage), pix, row, bit, d.algorithm)

\* lines 80-89: one cell of thread t's band.  A thread runs while the
\* process lives: not after exit(-1).
WorkerStep(t) ==
    /\ pc # "fatal"
    /\ wstate[t] = "running"
    /\ worker[t].row < thread_data[t].end_row
    /\ LET d == thread_data[t]
           src == Deref(d.srcImage)
           pos == worker[t]
           k == Index(pos.pix, pos.row, src.width, pos.bit, src.bpp)
           rs == NeighbourRows(src, pos.row)
       IN  /\ destImage' = [destImage EXCEPT !.data[k] = WorkerValue(d, pos.pix, pos.row, pos.bit)]
           /\ writers' = [writers EXCEPT ![k] = @ \cup {t}]
           /\ reads' = [reads EXCEPT ![t] = @ \cup {rs[1], rs[2], rs[3]}]
           /\ writes' = [writes EXCEPT ![t] = @ \cup {pos.row}]
           /\ worker' = [worker EXCEPT ![t] = Advance(pos, src)]
    /\ UNCHANGED <<srcImage, algorithm, pc, num_cores, num_threads, heap,
                   thread_data, rows_per_thread, remaining_rows, current_row,
                   i, rc, serial, wstate>>

\* line 90: the loop is over, the thread returns.
WorkerReturn(t) ==
    /\ pc # "fatal"
    /\ wstate[t] = "running"
    /\ worker[t].row >= thread_data[t].end_row
    /\ wstate' = [wstate EXCEPT ![t] = "done"]
    /\ UNCHANGED <<srcImage, destImage, algorithm, pc, num_cores, num_threads,
                   heap, thread_data, rows_per_thread, remaining_rows,
                   current_row, i, rc, serial, worker, writers, reads, writes>>

WorkerSteps == \E t \in Slots : WorkerStep(t)
WorkerReturns == \E t \in Slots : WorkerReturn(t)

Next ==
    \/ QueryCores
    \/ Allocate
    \/ EnterFallback
    \/ SerialStep
    \/ SerialReturn
    \/ Partition
    \/ Launch
    \/ LaunchDone
    \/ Join
    \/ FreeAndReturn
    \/ WorkerSteps
    \/ WorkerReturns

Spec == Init /\ [][Next]_vars

\* The steps of the thread that called convolute, and those of worker t.
SchedulerNext ==
    \/ QueryCores
    \/ Allocate
    \/ EnterFallback
    \/ SerialStep
    \/ SerialReturn
    \/ Partition
    \/ Launch
    \/ LaunchDone
    \/ Join
    \/ FreeAndReturn

WorkerNext(t) == WorkerStep(t) \/ WorkerReturn(t)

\* The call under a fair scheduler: a thread that can take a step
\* eventually takes one.
SpecFair ==
    /\ Init
    /\ [][Next]_vars
    /\ WF_vars(SchedulerNext)
    /\ \A t \in Slots : WF_vars(WorkerNext(t))

\* The same call on inputs that main would not pass.
SpecUnchecked == InitUnchecked /\ [][Next]_vars

(***************************************************************************)
(* The evaluator alone: getPixelValue applied to one cell of an image, as  *)
(* the statement of line 112 (and of lines 84-86) does, for images of up   *)
(* to EvalMaxSide rows and columns and 1..MaxChannels channels.            *)
(***************************************************************************)
\* A uniform image: every byte is v.
FlatImage(w, h, b, v) ==
    [width |-> w, height |-> h, bpp |-> b,
     data |-> [k \in 0..(w * h * b - 1) |-> v]]

\* A single-channel image, zero but for the pixel (px, py), which is 100.
ImpulseImage(w, h, px, py) ==
    [width |-> w, height |-> h, bpp |-> 1,
     data |-> [k \in 0..(w * h - 1) |-> IF k = Index(px, py, w, 0, 1) THEN 100 ELSE 0]]

FlatValues == {0, 5, 40, 255}

EvalSides == 1..EvalMaxSide

EvalImages ==
    {LoadedImage(w, h, b) : w \in EvalSides, h \in EvalSides, b \in 1..MaxChannels}
    \cup UNION {{FlatImage(w, h, b, v) : v \in FlatValues, b \in {1, MaxChannels}} :
                   w \in EvalSides, h \in EvalSides}
    \cup UNION {{ImpulseImage(w, h, px, py) : px \in 0..(w - 1), py \in 0..(h - 1)} :
                   w \in EvalSides, h \in EvalSides}

EvalInputs == {<<img, FreshImage(img.width, img.height, img.bpp)>> : img \in EvalImages}

InitEval == InitFrom(EvalInputs)

\* destImage->data[Index(pix,row,...)] = getPixelValue(srcImage,pix,row,bit,
\* algorithm), on a fresh destination, for any in-range cell.
Evaluate ==
    /\ pc = "start"
    /\ \A n \in DOMAIN destImage.data : destImage.data[n] = Unwritten
    /\ \E x \in 0..(srcImage.width - 1), y \in 0..(srcImage.height - 1),
          bit \in 0..(srcImage.bpp - 1) :
          LET k == Index(x, y, srcImage.width, bit, srcImage.bpp)
              v == getPixelValue(srcImage, x, y, bit, algorithm)
          IN  /\ serial' = [row |-> y, pix |-> x, bit |-> bit]
              /\ destImage' = [destImage EXCEPT !.data =
                                  [n \in DOMAIN destImage.data |->
                                      IF n = k THEN v ELSE Unwritten]]
    /\ UNCHANGED <<srcImage, algorithm, pc, num_cores, num_threads, heap,
                   thread_data, rows_per_thread, remaining_rows, current_row,
                   i, rc, wstate, worker, writers, reads, writes>>

SpecEval == InitEval /\ [][Evaluate]_vars

(***************************************************************************)
(* Definitions the properties below are stated with.                       *)
(***************************************************************************)
\* The rows of the band the descriptor of thread t holds.
Band(t) == thread_data[t].start_row..(thread_data[t].end_row - 1)
BandSize(t) == thread_data[t].end_row - thread_data[t].start_row

\* The threads convolute is to start.
Threads == 0..(num_threads - 1)

\* convolute returned through line 161 (both arrays were allocated and
\* freed there) or through line 118 (one of them is NULL).
ReturnedParallel ==
    pc = "returned" /\ heap.threads = "FREED" /\ heap.thread_data = "FREED"
ReturnedSerial ==
    pc = "returned" /\ (heap.threads = "NULL" \/ heap.thread_data = "NULL")

\* The launch loop has run to its end.
AllDispatched == pc = "join" \/ ReturnedParallel

\* The destination the single sequential pass of lines 109-115 produces
\* from the source, the kernel and an unwritten buffer.
RECURSIVE SerialPass(_, _)
SerialPass(pos, data) ==
    IF pos.row >= srcImage.height THEN data
    ELSE SerialPass(Advance(pos, srcImage),
                    [data EXCEPT ![Index(pos.pix, pos.row, srcImage.width, pos.bit, srcImage.bpp)] =
                        getPixelValue(srcImage, pos.pix, pos.row, pos.bit, algorithm)])

SerialOutput ==
    SerialPass([row |-> 0, pix |-> 0, bit |-> 0], [k \in DOMAIN destImage.data |-> Unwritten])

\* The bands lines 121-143 lay out for T threads over h rows.
RECURSIVE LayoutFrom(_, _, _, _, _)
LayoutFrom(t, T, q, rem, row) ==
    IF t >= T THEN << >>
    ELSE LET n == IF rem > 0 THEN q + 1 ELSE q
         IN  << [start_row |-> row, end_row |-> row + n] >>
             \o LayoutFrom(t + 1, T, q, IF rem > 0 THEN rem - 1 ELSE rem, row + n)

Layout(h, T) == LayoutFrom(0, T, h \div T, h % T, 0)

\* The destination T workers produce once all of them have run to
\* completion over the bands of Layout.
ParallelOutput(T) ==
    LET L == Layout(srcImage.height, T)
    IN  [k \in DOMAIN destImage.data |->
            IF \E t \in 1..T : RowOf(k, srcImage) \in L[t].start_row..(L[t].end_row - 1)
            THEN getPixelValue(srcImage, PixOf(k, srcImage), RowOf(k, srcImage),
                               BitOf(k, srcImage), algorithm)
            ELSE Unwritten]

\* The preconditions section 6 of the specification lists.
Preconditions ==
    /\ srcImage.width = destImage.width
    /\ srcImage.height = destImage.height
    /\ srcImage.bpp = destImage.bpp
    /\ srcImage.width > 0
    /\ srcImage.height > 0
    /\ srcImage.bpp \in 1..4
    /\ DOMAIN srcImage.data = 0..(srcImage.width * srcImage.height * srcImage.bpp - 1)
    /\ DOMAIN destImage.data = 0..(destImage.width * destImage.height * destImage.bpp - 1)

\* An evaluation of SpecEval has been made; its cell is in serial.
Evaluated ==
    pc = "start" /\ \E k \in DOMAIN destImage.data : destImage.data[k] # Unwritten

EvalIndex == Index(serial.pix, serial.row, srcImage.width, serial.bit, srcImage.bpp)

\* The reference of section 4.1 of the specification: each neighbour
\* coordinate clamped on each axis to the nearest in-bounds coordinate, the
\* nine products added in kernel order, the sum clamped to [0,255] and
\* truncated.
Clamp(v, lo, hi) == IF v < lo THEN lo ELSE IF v > hi THEN hi ELSE v

RefByte(x, y, bit) ==
    srcImage.data[Index(Clamp(x, 0, srcImage.width - 1), Clamp(y, 0, srcImage.height - 1),
                        srcImage.width, bit, srcImage.bpp)]

\* The products 0..n of the neighbourhood of (x, y), row by row: exactly,
\* as a numerator over algorithm.den, and in binary64 for the weight 1/9.0.
RECURSIVE RefSum(_, _, _, _)
RefSum(n, x, y, bit) ==
    IF n < 0 THEN 0
    ELSE RefSum(n - 1, x, y, bit)
         + algorithm.w[(n \div 3) + 1][(n % 3) + 1]
           * RefByte(x + (n % 3) - 1, y + (n \div 3) - 1, bit)

RECURSIVE RefSumBinary64(_, _, _, _)
RefSumBinary64(n, x, y, bit) ==
    LET p == TimesByte(Ninth, RefByte(x + (n % 3) - 1, y + (n \div 3) - 1, bit))
    IN  IF n = 0 THEN p ELSE Plus(RefSumBinary64(n - 1, x, y, bit), p)

RefValue(x, y, bit) ==
    IF ExactKernel(algorithm)
    THEN LET s == RefSum(8, x, y, bit)
         IN  Clamp(s, 0, 255 * algorithm.den) \div algorithm.den
    ELSE ClampAndCast(RefSumBinary64(8, x, y, bit))

\* The source is the impulse image with its impulse at an inner pixel.
InnerImpulseAt(px, py) ==
    /\ 1 <= px /\ px <= srcImage.width - 2
    /\ 1 <= py /\ py <= srcImage.height - 2
    /\ srcImage = ImpulseImage(srcImage.width, srcImage.height, px, py)

\* The sum of a kernel's weights, as a numerator over its denominator.
SumOfWeights(alg) ==
    alg.w[1][1] + alg.w[1][2] + alg.w[1][3] + alg.w[2][1] + alg.w[2][2] + alg.w[2][3]
    + alg.w[3][1] + alg.w[3][2] + alg.w[3][3]

\* Every byte of the source has the same value.
IsFlat == \A k \in DOMAIN srcImage.data : srcImage.data[k] = srcImage.data[0]

(***************************************************************************)
(* Properties.                                                             *)
(***************************************************************************)

\* C1: for height >= 1 and T >= 1, the bands assigned to workers 0..T-1
\* are pairwise disjoint, their union is exactly [0, height), and any two
\* band sizes differ by at most one row.
C1_PartitionComplete ==
    (AllDispatched /\ srcImage.height >= 1 /\ num_threads >= 1) =>
        /\ \A a, b \in Threads : a # b => Band(a) \cap Band(b) = {}
        /\ UNION {Band(t) : t \in Threads} = 0..(srcImage.height - 1)
        /\ \A a, b \in Threads : BandSize(a) - BandSize(b) \in {-1, 0, 1}

\* A dispatch of at least two bands of different sizes.
C1_Witness ==
    /\ AllDispatched
    /\ num_threads >= 2
    /\ \E a, b \in Threads : BandSize(a) = BandSize(b) + 1 /\ BandSize(b) >= 1

\* C2: whatever the interleaving of the workers, the destination after
\* convolute returns through the multi-worker path is byte-identical to
\* the destination the single sequential pass produces.
C2_ParallelEqualsSerial ==
    ReturnedParallel => destImage.data = SerialOutput

\* A return through the multi-worker path after at least two workers wrote.
C2_Witness ==
    /\ ReturnedParallel
    /\ \E a, b \in Threads : a # b /\ writes[a] # {} /\ writes[b] # {}

\* C3: no destination cell is written by two different workers; every
\* write to a row is by the one worker whose band contains that row.
C3_ExclusiveWrites ==
    \A k \in DOMAIN writers :
        /\ Cardinality(writers[k]) <= 1
        /\ \A t \in writers[k] \cap Slots :
              /\ RowOf(k, srcImage) \in Band(t)
              /\ \A u \in Slots \ {t} :
                    wstate[u] # "none" => RowOf(k, srcImage) \notin Band(u)

\* Two different workers have each written a cell while both were running.
C3_Witness ==
    \E a, b \in Slots :
        /\ a # b
        /\ wstate[a] = "running" /\ wstate[b] = "running"
        /\ \E k \in DOMAIN writers : writers[k] = {a}
        /\ \E k \in DOMAIN writers : writers[k] = {b}

\* C4, as claimed: every row a worker reads from the source or writes to
\* the destination lies in its own band.
C4_Original ==
    \A t \in Slots : wstate[t] # "none" => (reads[t] \cup writes[t]) \subseteq Band(t)

\* C4, amended: every row a worker writes lies in its own band, and every
\* source row it reads lies in its band extended by one row on each side,
\* inside the image: in [start_row - 1, end_row] and in [0, height).
C4_WritesInBandReadsAdjacent ==
    \A t \in Slots : wstate[t] # "none" =>
        /\ writes[t] \subseteq Band(t)
        /\ \A r \in reads[t] :
              /\ 0 <= r /\ r < srcImage.height
              /\ thread_data[t].start_row - 1 <= r
              /\ r <= thread_data[t].end_row

\* A worker has read rows of both neighbouring bands.
C4_Witness ==
    \E t \in Slots :
        /\ wstate[t] # "none"
        /\ thread_data[t].start_row - 1 \in reads[t]
        /\ thread_data[t].end_row \in reads[t]

\* C5: convolute has returned only when no worker is still running and
\* every cell of the destination has been written.
C5_ReturnAfterAllWritten ==
    pc = "returned" =>
        /\ \A t \in Slots : wstate[t] # "running"
        /\ \A k \in DOMAIN destImage.data : destImage.data[k] # Unwritten

\* A return through the multi-worker path with at least two workers.
C5_Witness ==
    /\ ReturnedParallel
    /\ num_threads >= 2
    /\ \A t \in Threads : wstate[t] = "done"

\* C6: when a spawn fails, the fatal termination happens only after every
\* worker started before has finished.
C6_DrainBeforeFatal ==
    pc = "fatal" => \A t \in Slots : wstate[t] # "running"

\* C7: after a failed spawn convolute does not return to its caller; the
\* fatal error is the only outcome.
C7_SpawnFailureIsFatal ==
    rc # 0 => (pc = "fatal" /\ pc # "returned")

\* A spawn failed after at least one worker was started and wrote.
C7_Witness ==
    /\ rc # 0
    /\ i >= 1
    /\ pc = "fatal"
    /\ \E k \in DOMAIN destImage.data : destImage.data[k] = Unwritten
    /\ \E k \in DOMAIN destImage.data : destImage.data[k] # Unwritten

\* C8: if either allocation fails, no worker is spawned, the call does not
\* end fatally, and when it returns every cell of the destination is
\* written and the destination is what the workers of the parallel path
\* would have produced, for any thread count.
C8_FallbackTransparent ==
    (pc \notin {"start", "alloc"} /\ (heap.threads = "NULL" \/ heap.thread_data = "NULL")) =>
        /\ \A t \in Slots : wstate[t] = "none"
        /\ pc # "fatal"
        /\ rc = 0
        /\ pc = "returned" =>
              /\ \A k \in DOMAIN destImage.data : destImage.data[k] # Unwritten
              /\ \A T \in 1..MaxCores : destImage.data = ParallelOutput(T)

\* A return through the fallback when only one of the two allocations failed.
C8_Witness ==
    /\ ReturnedSerial
    /\ heap.threads # heap.thread_data
    /\ num_threads >= 1
    /\ srcImage.height >= 2

\* C9: when a precondition is violated, no worker is spawned, no byte of
\* the destination is written, and the call does not return as a success.
C9_RejectsInvalidImage ==
    ~Preconditions =>
        /\ \A t \in Slots : wstate[t] = "none"
        /\ \A k \in DOMAIN destImage.data : destImage.data[k] = Unwritten
        /\ pc # "returned"

\* C10: the thread count used for allocation, partitioning and spawning is
\* at least 1, and it is 1 when the core query is unavailable.
C10_ThreadCountAtLeastOne ==
    pc # "start" =>
        /\ num_threads >= 1
        /\ num_cores = -1 => num_threads = 1

\* C12: for every image of at least one row and column and 1..4 channels
\* and every in-range cell, the nine source coordinates the evaluator
\* reads lie in [0,width) x [0,height), their indices lie in the source
\* buffer, and the destination index written lies in the destination buffer.
C12_NoOutOfBounds ==
    Evaluated =>
        LET cs == NeighbourCols(srcImage, serial.pix)
            rs == NeighbourRows(srcImage, serial.row)
        IN  /\ \A c \in 1..3 : cs[c] \in 0..(srcImage.width - 1)
            /\ \A j \in 1..3 : rs[j] \in 0..(srcImage.height - 1)
            /\ \A j, c \in 1..3 :
                  Index(cs[c], rs[j], srcImage.width, serial.bit, srcImage.bpp)
                      \in DOMAIN srcImage.data
            /\ EvalIndex \in DOMAIN destImage.data
            /\ destImage.data[EvalIndex] # Unwritten

\* The last cell of a one-row image of several columns and 4 channels.
C12_Witness ==
    /\ Evaluated
    /\ srcImage.height = 1 /\ srcImage.width >= 2 /\ srcImage.bpp = MaxChannels
    /\ serial.pix = srcImage.width - 1 /\ serial.bit = srcImage.bpp - 1

\* C13: the evaluator's result is the reference value (replicate-edge
\* neighbourhood, weighted sum, clamp to [0,255]); with the sharpen kernel
\* on an all-zero image with one inner pixel of 100 it is 255 at that
\* pixel and 0 at its four direct neighbours and everywhere else.
C13_MatchesReference ==
    Evaluated =>
        /\ destImage.data[EvalIndex] = RefValue(serial.pix, serial.row, serial.bit)
        /\ \A px \in 0..(srcImage.width - 1), py \in 0..(srcImage.height - 1) :
              (algorithm = algorithms[SHARPEN] /\ InnerImpulseAt(px, py)) =>
                  destImage.data[EvalIndex] =
                      IF serial.pix = px /\ serial.row = py THEN 255 ELSE 0

\* The sharpen kernel evaluated at the impulse of a 4x4 impulse image.
C13_Witness ==
    /\ Evaluated
    /\ algorithm = algorithms[SHARPEN]
    /\ srcImage.width = 4 /\ srcImage.height = 4
    /\ InnerImpulseAt(2, 2)
    /\ serial.pix = 2 /\ serial.row = 2
    /\ destImage.data[EvalIndex] = 255

\* C14: with the identity kernel, after convolute returns (by either
\* path) every byte of the destination is the source's byte.
C14_IdentityKernel ==
    (pc = "returned" /\ algorithm = algorithms[IDENTITY]) =>
        \A k \in DOMAIN destImage.data : destImage.data[k] = srcImage.data[k]

\* The identity kernel through the multi-worker path on several channels.
C14_Witness ==
    /\ ReturnedParallel
    /\ algorithm = algorithms[IDENTITY]
    /\ num_threads >= 2
    /\ srcImage.bpp >= 2 /\ srcImage.width >= 2 /\ srcImage.height >= 2

\* C15: on a uniform image of value v and with a kernel whose weights sum
\* to 1, the evaluator's result is v at every cell.
C15_FlatFieldInvariance ==
    (Evaluated /\ IsFlat /\ SumOfWeights(algorithm) = algorithm.den) =>
        destImage.data[EvalIndex] = srcImage.data[0]

\* C16: on a 1x1 image every channel of the result is
\* clamp(value * sum_of_weights), whatever the kernel and the thread count.
C16_SinglePixel ==
    (pc = "returned" /\ srcImage.width = 1 /\ srcImage.height = 1) =>
        \A bit \in DOMAIN destImage.data :
            destImage.data[bit] =
                Clamp(srcImage.data[bit] * SumOfWeights(algorithm), 0, 255 * algorithm.den)
                    \div algorithm.den

\* C11: under fair scheduling every call eventually ends, by returning
\* with every byte of the destination written or by the fatal error; the
\* scheduler never waits forever on a join.
C11_Terminates ==
    <>(\/ pc = "fatal"
       \/ /\ pc = "returned"
          /\ \A k \in DOMAIN destImage.data : destImage.data[k] # Unwritten)

\* The scheduler is blocked in pthread_join on a worker that is still running.
C11_Witness ==
    /\ pc = "join"
    /\ i < num_threads
    /\ wstate[i] = "running"
    /\ worker[i].row < thread_data[i].end_row

\* C17: with q = height / T and r = height % T, band i has q+1 rows if
\* i < r and q rows otherwise; band 0 starts at row 0, each band starts
\* where the previous one ends and the last ends at height; the layout is
\* the function start_row(i) = i*q + min(i, r) of height and T.
C17_BandLayout ==
    (AllDispatched /\ num_threads >= 1) =>
        LET q == srcImage.height \div num_threads
            r == srcImage.height % num_threads
        IN  /\ \A t \in Threads : BandSize(t) = IF t < r THEN q + 1 ELSE q
            /\ thread_data[0].start_row = 0
            /\ \A t \in Threads \ {0} :
                  thread_data[t].start_row = thread_data[t - 1].end_row
            /\ thread_data[num_threads - 1].end_row = srcImage.height
            /\ \A t \in Threads :
                  thread_data[t].start_row = t * q + (IF t < r THEN t ELSE r)

\* A layout with both kinds of band: some of q+1 rows, some of q >= 1 rows.
C17_Witness ==
    /\ AllDispatched
    /\ num_threads >= 2
    /\ srcImage.height % num_threads >= 1
    /\ srcImage.height \div num_threads >= 1

\* C18: no step of the call changes the source image; every started worker
\* reads through a pointer to the source and writes through a pointer to
\* the destination; and a byte a step stores in the destination is
\* determined by the source and the kernel alone, not by any destination
\* byte.
C18_SourceReadOnly ==
    [][/\ srcImage' = srcImage
       /\ \A t \in Slots : wstate'[t] # "none" =>
             /\ thread_data'[t].srcImage = "srcImage"
             /\ thread_data'[t].destImage = "destImage"
       /\ \A k \in DOMAIN destImage.data :
             destImage'.data[k] # destImage.data[k] =>
                 destImage'.data[k] =
                     getPixelValue(srcImage, PixOf(k, srcImage), RowOf(k, srcImage),
                                   BitOf(k, srcImage), algorithm)]_vars

\* Two workers have stored bytes while the source is as it was loaded.
C18_Witness ==
    /\ \E a, b \in Slots : a # b /\ writes[a] # {} /\ writes[b] # {}
    /\ srcImage = LoadedImage(srcImage.width, srcImage.height, srcImage.bpp)

\* What a completely written descriptor holds.
DescriptorComplete(d) ==
    /\ d.srcImage = "srcImage"
    /\ d.destImage = "destImage"
    /\ d.algorithm = algorithm
    /\ 0 <= d.start_row /\ d.start_row <= d.end_row /\ d.end_row <= srcImage.height

\* C19: when worker t exists its descriptor is completely written, and no
\* step changes the descriptor of a worker that already exists.
C19_DescriptorStable ==
    [][\A t \in Slots : wstate'[t] # "none" =>
          /\ DescriptorComplete(thread_data'[t])
          /\ wstate[t] # "none" => thread_data'[t] = thread_data[t]]_vars

\* Two workers run, one of them has stored bytes, and the scheduler is
\* about to fill the next descriptor.
C19_Witness ==
    /\ pc = "launch"
    /\ i < num_threads
    /\ \E a, b \in Slots :
          /\ a < b /\ b < i
          /\ wstate[a] = "running" /\ wstate[b] = "running"
          /\ writes[a] # {}

\* C20: a step of the join loop joins thread i, which has terminated, and
\* moves on to i + 1, so the T threads are joined once each in spawn
\* order; once an array is freed no worker is running, and on the parallel
\* path all T have been joined.
C20_FreeAfterJoin ==
    [][/\ (pc = "join" /\ i' # i) =>
             /\ i < num_threads
             /\ wstate[i] = "done"
             /\ i' = i + 1
       /\ (heap'.threads = "FREED" \/ heap'.thread_data = "FREED") =>
             \A t \in Slots : wstate'[t] # "running"
       /\ (heap'.threads = "FREED" /\ heap'.thread_data = "FREED") =>
             /\ i' = num_threads
             /\ \A t \in Threads : wstate'[t] = "done"]_vars

\* Both arrays are freed after three workers were joined.
C20_Witness ==
    /\ ReturnedParallel
    /\ num_threads >= 3
    /\ i = num_threads
    /\ \A t \in Threads : wstate[t] = "done" /\ writes[t] # {}

====
